---- MODULE Spec2Model ----
(***************************************************************************)
(* Model of src/main.py: the doppelkopf round-recording API.               *)
(*                                                                         *)
(* The database is the committed content of the tables rounds and          *)
(* round_players plus the id sequence of rounds.  Every request handler    *)
(* runs on its own connection; `with get_conn() as conn` makes the body    *)
(* one transaction that is committed when the block ends normally and      *)
(* rolled back when it ends by an exception (psycopg2).  No isolation      *)
(* level is set in get_conn, so statements run under PostgreSQL's default  *)
(* READ COMMITTED: every statement sees the rows committed before it       *)
(* starts, plus the writes of its own transaction.  Each SQL statement is  *)
(* one atomic step of the model.                                           *)
(***************************************************************************)
EXTENDS Integers, Sequences, FiniteSets, TLC

\* ------------------------------------------------------------------ bounds
NumClients == 2        \* requests that can be in flight at the same time
MaxRounds == 2         \* ids the sequence of rounds.id hands out in a run
MaxPlayedAt == 2       \* distinct played_at values
MaxListLen == 5        \* longest players list of a request
NumPlayers == 4        \* player ids that are asked about
FixtureRounds == 4     \* rounds of a database the read endpoints start from

\* ------------------------------------------------------- program constants
RequiredPlayers == 4

Clients == 1..NumClients
PlayedAts == 1..MaxPlayedAt
PlayerIds == 1..NumPlayers
Teams == {"Re", "Kontra"}
NULL == "NULL"

RP(p, t, pts) == [player_id |-> p, team |-> t, points |-> pts, reservation |-> "none"]

\* Players lists.  Nothing requires the four players to be distinct, the teams
\* to be balanced or the points to be >= 0.
RosterSeq ==
    << << RP(1, "Re", 10), RP(2, "Re", 10), RP(3, "Kontra", -10), RP(4, "Kontra", -10) >>,
       << RP(1, "Re", 20), RP(2, "Kontra", 5), RP(3, "Re", 20), RP(4, "Kontra", 5) >>,
       << RP(1, "Kontra", 30), RP(2, "Re", 20), RP(3, "Re", -25), RP(3, "Kontra", -25) >> >>

\* The players lists of the requests: every length 0..MaxListLen.
RequestRosters == { RosterSeq[3] }
PlayerLists ==
    { [i \in 1..n |-> r[((i - 1) % RequiredPlayers) + 1]] :
        r \in RequestRosters, n \in 0..MaxListLen }

\* ------------------------------------------------------------------- state
VARIABLES
    rounds,          \* committed rows of table rounds
    round_players,   \* committed rows of table round_players, in heap order
    rounds_id_seq,   \* last value handed out by the sequence behind rounds.id
    pc,              \* per client: the statement its handler executes next
    req,             \* per client: the request being (or last) handled
    txn,             \* per client: uncommitted writes of its transaction
    resp,            \* per client: the response of the last finished request
    issued,          \* history: round ids returned by create_round, in order
    deleted_ok       \* history: round ids for which delete_round returned ok

vars == << rounds, round_players, rounds_id_seq, pc, req, txn, resp, issued, deleted_ok >>

NoReq == [op |-> "none"]
NoResp == [status |-> 0]
EmptyTxn == [rounds |-> {}, players |-> << >>, deleted |-> {}]

HTTPException(code, msg) == [status |-> code, detail |-> msg]
InternalServerError == [status |-> 500, detail |-> "Internal Server Error"]
Ok(body) == [status |-> 200, body |-> body]

\* --------------------------------------------------------------- helpers
RECURSIVE SumPoints(_, _)
SumPoints(rows, I) ==
    IF I = {} THEN 0
    ELSE LET i == CHOOSE j \in I : TRUE IN rows[i].points + SumPoints(rows, I \ {i})

RoundIds(rs) == { r.id : r \in rs }
RoundById(rs, id) == CHOOSE r \in rs : r.id = id

\* len(data.players) != 4
ValidPlayerCountLoose(players) == Len(players) >= RequiredPlayers
ValidPlayerCountUpTo(players) == Len(players) <= RequiredPlayers
ValidPlayerCount(players) == Len(players) = RequiredPlayers

\* INSERT INTO rounds ... RETURNING id: the id is not supplied, the sequence
\* behind the column generates it; nextval is never rolled back.
NextRoundIdMax(seq, rs) ==
    IF rs = {} THEN 1 ELSE (CHOOSE m \in RoundIds(rs) : \A k \in RoundIds(rs) : k <= m) + 1
NextRoundId(seq, rs) == seq + 1

\* SELECT 1 FROM rounds WHERE id = %s ... fetchone() is None
RoundExistsAlways(rs, id) == TRUE
RoundExists(rs, id) == id \in RoundIds(rs)

\* DELETE FROM rounds WHERE id = %s  -- "round_players will cascade"
CascadeNone(rps, ids) == rps
Cascade(rps, ids) == SelectSeq(rps, LAMBDA row : row.round_id \notin ids)

\* The writes of a transaction applied to the committed tables.
ApplyTxn(rs, rps, t) ==
    [rounds |-> { r \in rs : r.id \notin t.deleted } \cup t.rounds,
     round_players |-> Cascade(rps, t.deleted) \o t.players]

\* connection.__exit__: commit when the block ended normally, rollback when it
\* ended by an exception.
ConnExitAutocommit(rs, rps, t, exc) == ApplyTxn(rs, rps, t)
ConnExit(rs, rps, t, exc) ==
    IF exc THEN [rounds |-> rs, round_players |-> rps] ELSE ApplyTxn(rs, rps, t)

\* ------------------------------------------------------------------- Init
Init ==
    /\ rounds = {}
    /\ round_players = << >>
    /\ rounds_id_seq = 0
    /\ pc = [c \in Clients |-> "idle"]
    /\ req = [c \in Clients |-> NoReq]
    /\ txn = [c \in Clients |-> EmptyTxn]
    /\ resp = [c \in Clients |-> NoResp]
    /\ issued = << >>
    /\ deleted_ok = {}

\* ------------------------------------------------------------ create_round
\* Creations that have passed validation and not yet drawn their id.
PendingCreates == { d \in Clients : pc[d] = "insert_round" }

\* POST /rounds arrives: the length check, before any connection is opened.
create_round(c) ==
    /\ pc[c] = "idle"
    /\ \E played_at \in PlayedAts, winning_team \in Teams, players \in PlayerLists :
         /\ ValidPlayerCount(players) => rounds_id_seq + Cardinality(PendingCreates) < MaxRounds
         /\ req' = [req EXCEPT ![c] = [op |-> "create_round", played_at |-> played_at,
                                       winning_team |-> winning_team, players |-> players]]
         /\ IF ~ValidPlayerCount(players)
            THEN /\ resp' = [resp EXCEPT ![c] = HTTPException(400, "Exactly 4 players required")]
                 /\ pc' = pc
            ELSE /\ resp' = [resp EXCEPT ![c] = NoResp]
                 /\ pc' = [pc EXCEPT ![c] = "insert_round"]
    /\ UNCHANGED << rounds, round_players, rounds_id_seq, txn, issued, deleted_ok >>

\* The handler ends by an exception raised by cur.execute: rollback, HTTP 500.
Abort(c) ==
    LET db == ConnExit(rounds, round_players, txn[c], TRUE) IN
    /\ rounds' = db.rounds
    /\ round_players' = db.round_players
    /\ txn' = [txn EXCEPT ![c] = EmptyTxn]
    /\ resp' = [resp EXCEPT ![c] = InternalServerError]
    /\ pc' = [pc EXCEPT ![c] = "idle"]

\* INSERT INTO rounds (played_at, winning_team) VALUES (...) RETURNING id
insert_round(c) ==
    /\ pc[c] = "insert_round"
    /\ \E accepted \in BOOLEAN :
         IF accepted
         THEN LET round_id == NextRoundId(rounds_id_seq, rounds) IN
              /\ rounds_id_seq' = rounds_id_seq + 1
              /\ txn' = [txn EXCEPT ![c].rounds =
                            {[id |-> round_id, played_at |-> req[c].played_at,
                              winning_team |-> req[c].winning_team]}]
              /\ pc' = [pc EXCEPT ![c] = "insert_players"]
              /\ UNCHANGED << rounds, round_players, resp >>
         ELSE /\ Abort(c)
              /\ UNCHANGED rounds_id_seq
    /\ UNCHANGED << req, issued, deleted_ok >>

\* One iteration of `for p in data.players`: INSERT INTO round_players ...
insert_round_player(c) ==
    /\ pc[c] = "insert_players"
    /\ Len(txn[c].players) < Len(req[c].players)
    /\ \E accepted \in BOOLEAN :
         IF accepted
         THEN LET round_id == (CHOOSE r \in txn[c].rounds : TRUE).id
                  p == req[c].players[Len(txn[c].players) + 1]
              IN /\ txn' = [txn EXCEPT ![c].players =
                               Append(@, [round_id |-> round_id, player_id |-> p.player_id,
                                          team |-> p.team, points |-> p.points,
                                          reservation |-> p.reservation])]
                 /\ UNCHANGED << rounds, round_players, resp, pc >>
         ELSE Abort(c)
    /\ UNCHANGED << rounds_id_seq, req, issued, deleted_ok >>

\* The loop is over: the with block ends normally (commit) and the handler
\* returns {"status": "ok", "round_id": round_id}.
create_round_commit(c) ==
    /\ pc[c] = "insert_players"
    /\ Len(txn[c].players) = Len(req[c].players)
    /\ LET db == ConnExit(rounds, round_players, txn[c], FALSE)
           round_id == (CHOOSE r \in txn[c].rounds : TRUE).id
       IN /\ rounds' = db.rounds
          /\ round_players' = db.round_players
          /\ resp' = [resp EXCEPT ![c] = Ok([status |-> "ok", round_id |-> round_id])]
          /\ issued' = Append(issued, round_id)
    /\ txn' = [txn EXCEPT ![c] = EmptyTxn]
    /\ pc' = [pc EXCEPT ![c] = "idle"]
    /\ UNCHANGED << rounds_id_seq, req, deleted_ok >>

\* ------------------------------------------------------------ delete_round
\* POST /rounds/delete arrives.
delete_round(c) ==
    /\ pc[c] = "idle"
    /\ \E round_id \in 1..MaxRounds :
         req' = [req EXCEPT ![c] = [op |-> "delete_round", round_id |-> round_id]]
    /\ resp' = [resp EXCEPT ![c] = NoResp]
    /\ pc' = [pc EXCEPT ![c] = "check_round"]
    /\ UNCHANGED << rounds, round_players, rounds_id_seq, txn, issued, deleted_ok >>

\* SELECT 1 FROM rounds WHERE id = %s; 404 (and rollback) when no row comes
\* back.  A row that another transaction has deleted but not yet committed is
\* still visible.
check_round(c) ==
    /\ pc[c] = "check_round"
    /\ IF ~RoundExists(rounds, req[c].round_id)
       THEN LET db == ConnExit(rounds, round_players, txn[c], TRUE) IN
            /\ rounds' = db.rounds
            /\ round_players' = db.round_players
            /\ txn' = [txn EXCEPT ![c] = EmptyTxn]
            /\ resp' = [resp EXCEPT ![c] = HTTPException(404, "Round not found")]
            /\ pc' = [pc EXCEPT ![c] = "idle"]
       ELSE /\ pc' = [pc EXCEPT ![c] = "delete_row"]
            /\ UNCHANGED << rounds, round_players, txn, resp >>
    /\ UNCHANGED << rounds_id_seq, req, issued, deleted_ok >>

\* DELETE FROM rounds WHERE id = %s.  The statement waits while another open
\* transaction holds the row (has deleted it and not yet ended); once that
\* transaction has committed the row is gone and the statement deletes zero
\* rows, which is no error.
RowLockedByOther(c, id) == \E d \in Clients \ {c} : id \in txn[d].deleted

delete_row(c) ==
    /\ pc[c] = "delete_row"
    /\ ~RowLockedByOther(c, req[c].round_id)
    /\ txn' = [txn EXCEPT ![c].deleted =
                  IF req[c].round_id \in RoundIds(rounds) THEN {req[c].round_id} ELSE {}]
    /\ pc' = [pc EXCEPT ![c] = "delete_commit"]
    /\ UNCHANGED << rounds, round_players, rounds_id_seq, req, resp, issued, deleted_ok >>

\* The with block ends normally (commit) and the handler returns
\* {"status": "ok", "deleted_round_id": data.round_id}.
delete_round_commit(c) ==
    /\ pc[c] = "delete_commit"
    /\ LET db == ConnExit(rounds, round_players, txn[c], FALSE) IN
         /\ rounds' = db.rounds
         /\ round_players' = db.round_players
    /\ txn' = [txn EXCEPT ![c] = EmptyTxn]
    /\ resp' = [resp EXCEPT ![c] = Ok([status |-> "ok", deleted_round_id |-> req[c].round_id])]
    /\ deleted_ok' = deleted_ok \cup {req[c].round_id}
    /\ pc' = [pc EXCEPT ![c] = "idle"]
    /\ UNCHANGED << rounds_id_seq, req, issued >>

\* -------------------------------------------------------- get_player_stats
\* FROM round_players rp JOIN rounds r ON r.id = rp.round_id
\* WHERE rp.player_id = %s: the positions of the joined rows in round_players.
JoinedRows(rs, rps, player_id) ==
    { i \in DOMAIN rps : rps[i].player_id = player_id /\ rps[i].round_id \in RoundIds(rs) }

\* ... AND r.winning_team IS NOT NULL
StatsRowsAll(rs, rps, player_id) == JoinedRows(rs, rps, player_id)
StatsRows(rs, rps, player_id) ==
    { i \in JoinedRows(rs, rps, player_id) : RoundById(rs, rps[i].round_id).winning_team # NULL }

\* SUM(CASE WHEN rp.team = r.winning_team THEN 1 ELSE 0 END)
WonRows(rs, rps, I) == { i \in I : rps[i].team = RoundById(rs, rps[i].round_id).winning_team }

\* round(num / den, 2), in hundredths.  Python rounds the exact value of the
\* quotient to the nearest hundredth, a tie to the even one.  (A win ratio is a
\* float: a tie is then decided by the float's exact value, which is the
\* quotient itself for the eighths, the only ties a denominator below 40 has.)
Round2(num, den) ==
    LET q == (100 * num) \div den
        rem == (100 * num) - q * den
    IN IF 2 * rem < den THEN q
       ELSE IF 2 * rem > den THEN q + 1
       ELSE IF q % 2 = 0 THEN q ELSE q + 1

\* GET /players/{player_id}/stats: one SELECT, then the rounds_played check.
\* win_ratio and average_points are kept in hundredths.
get_player_stats(c) ==
    /\ pc[c] = "idle"
    /\ \E player_id \in PlayerIds :
         LET I == StatsRows(rounds, round_players, player_id)
             rounds_played == Cardinality(I)
             rounds_won == Cardinality(WonRows(rounds, round_players, I))
             total_points == SumPoints(round_players, I)
         IN /\ req' = [req EXCEPT ![c] = [op |-> "get_player_stats", player_id |-> player_id]]
            /\ resp' = [resp EXCEPT ![c] =
                 IF rounds_played = 0
                 THEN HTTPException(404, "Player has no completed rounds")
                 ELSE Ok([player_id |-> player_id,
                          rounds_played |-> rounds_played,
                          rounds_won |-> rounds_won,
                          win_ratio |-> Round2(rounds_won, rounds_played),
                          total_points |-> total_points,
                          average_points |-> Round2(total_points, rounds_played)])]
    /\ UNCHANGED << rounds, round_players, rounds_id_seq, pc, txn, issued, deleted_ok >>

\* -------------------------------------------------- get_player_progression
\* ORDER BY r.played_at, r.id
OrderKeyLeq(rs, rps, i, j) ==
    LET ri == RoundById(rs, rps[i].round_id)
        rj == RoundById(rs, rps[j].round_id)
    IN \/ ri.played_at < rj.played_at
       \/ ri.played_at = rj.played_at /\ ri.id <= rj.id

\* cur.fetchone(): the first row of the ordered result; rows with the same
\* played_at and round id come in either order.
FirstRows(rs, rps, I) == { i \in I : \A j \in I : OrderKeyLeq(rs, rps, i, j) }

\* The shape of the value the handler returns, field by field, and the shape
\* the response_model requires.
ReturnedShape ==
    [player_id |-> "int", round_id |-> "int", played_at |-> "scalar", progression |-> "scalar"]
PlayerProgressionResponse ==
    [player_id |-> "int", round_id |-> "int", played_at |-> "list", progression |-> "list"]

\* GET /players/{player_id}/progression: one SELECT, fetchone, and the
\* returned dict validated against the response_model.  Subscripting the None
\* that fetchone gives for an empty result raises a TypeError; a returned value
\* that does not validate raises too: both end as HTTP 500.
get_player_progression(c) ==
    /\ pc[c] = "idle"
    /\ \E player_id \in PlayerIds :
         LET I == JoinedRows(rounds, round_players, player_id) IN
         /\ req' = [req EXCEPT ![c] = [op |-> "get_player_progression", player_id |-> player_id]]
         /\ IF I = {}
            THEN resp' = [resp EXCEPT ![c] = InternalServerError]
            ELSE \E i \in FirstRows(rounds, round_players, I) :
                   LET playerProgression ==
                         [round_id |-> round_players[i].round_id,
                          played_at |-> RoundById(rounds, round_players[i].round_id).played_at,
                          progression |-> round_players[i].points]
                       body == [player_id |-> player_id,
                                round_id |-> playerProgression.round_id,
                                played_at |-> playerProgression.played_at,
                                progression |-> playerProgression.progression]
                   IN resp' = [resp EXCEPT ![c] =
                        IF ReturnedShape = PlayerProgressionResponse
                        THEN Ok(body) ELSE InternalServerError]
    /\ UNCHANGED << rounds, round_players, rounds_id_seq, pc, txn, issued, deleted_ok >>

\* -------------------------------------------------------------------- Next
Next ==
    \E c \in Clients :
        \/ create_round(c)
        \/ insert_round(c)
        \/ insert_round_player(c)
        \/ create_round_commit(c)
        \/ delete_round(c)
        \/ check_round(c)
        \/ delete_row(c)
        \/ delete_round_commit(c)

Spec == Init /\ [][Next]_vars

\* ------------------------------------------------------------- properties
RowsOfRound(rps, id) == { i \in DOMAIN rps : rps[i].round_id = id }

\* Client c has just taken a step of its own.
Stepped(c) == << pc[c], req[c], resp[c], txn[c] >>' # << pc[c], req[c], resp[c], txn[c] >>

TablesUnchanged == rounds' = rounds /\ round_players' = round_players

\* C1: in every committed state every rounds row has exactly 4 round_players
\* rows whose round_id is its id.
C1_FourPlayersPerRound ==
    \A r \in rounds : Cardinality(RowsOfRound(round_players, r.id)) = 4

\* A round was created and committed next to a round created and deleted.
C1_Witness ==
    /\ rounds # {}
    /\ deleted_ok # {}
    /\ \E c \in Clients : req[c].op = "create_round" /\ resp[c].status = 200

\* C2: once delete_round has returned success for R, no rounds row has id R
\* and no round_players row has round_id R; and no committed round_players row
\* references a round that does not exist.
C2_DeleteCascades ==
    /\ \A id \in deleted_ok :
         id \notin RoundIds(rounds) /\ RowsOfRound(round_players, id) = {}
    /\ \A i \in DOMAIN round_players : round_players[i].round_id \in RoundIds(rounds)

\* A delete has returned success while another round is still stored.
C2_Witness ==
    /\ \E c \in Clients :
         /\ req[c].op = "delete_round" /\ pc[c] = "idle" /\ resp[c].status = 200
         /\ resp[c].body.deleted_round_id \in deleted_ok
    /\ round_players # << >>

\* What no other request ever sees of a create: the round of an open
\* transaction and its rows are in no committed table, no committed round has
\* 1, 2 or 3 rows, and a round whose id was returned was committed whole.
C3_Inv ==
    /\ \A c \in Clients : \A r \in txn[c].rounds :
         r.id \notin RoundIds(rounds) /\ RowsOfRound(round_players, r.id) = {}
    /\ \A r \in rounds : Cardinality(RowsOfRound(round_players, r.id)) \notin {1, 2, 3}
    /\ \A c \in Clients :
         (req[c].op = "create_round" /\ pc[c] = "idle" /\ resp[c].status = 200)
            => resp[c].body.round_id \in RoundIds(rounds) \cup deleted_ok

\* Client c's create ends without the success body.
C3_FailedStep(c) ==
    /\ pc[c] \in {"insert_round", "insert_players"}
    /\ pc'[c] = "idle"
    /\ resp'[c].status # 200

\* C3: create_round is all-or-nothing.  A create that ends by a failed insert
\* (the rounds insert or any of the 4 round_players inserts) answers 500, not
\* the success body, and leaves both tables as they were, without the new
\* round and its rows; and no committed state shows a round with 1, 2 or 3
\* rows or a row of an open transaction.
C3_CreateAllOrNothing ==
    /\ []C3_Inv
    /\ [][\A c \in Clients : C3_FailedStep(c) =>
             /\ TablesUnchanged
             /\ resp'[c].status = 500
             /\ txn'[c] = EmptyTxn
             /\ \A r \in txn[c].rounds :
                  r.id \notin RoundIds(rounds') /\ RowsOfRound(round_players', r.id) = {}]_vars

\* Both ids were drawn and only one was returned: a create whose rounds insert
\* had been accepted failed at one of its round_players inserts, while the
\* other create committed.
C3_Witness ==
    /\ rounds_id_seq = 2
    /\ Len(issued) = 1
    /\ \A d \in Clients : pc[d] = "idle"
    /\ \E c \in Clients : req[c].op = "create_round" /\ resp[c].status = 500
    /\ Cardinality(rounds) = 1

\* Client c sends a create_round whose players list is not 4 long.
C4_BadRequest(c) ==
    /\ pc[c] = "idle"
    /\ Stepped(c)
    /\ req'[c].op = "create_round"
    /\ Len(req'[c].players) # 4

\* C4: a create_round whose players list is not 4 long answers 400 "Exactly 4
\* players required" and changes nothing, however often it is repeated.
C4_WrongCountRejected ==
    [][\A c \in Clients : C4_BadRequest(c) =>
          /\ resp'[c] = [status |-> 400, detail |-> "Exactly 4 players required"]
          /\ pc'[c] = "idle"
          /\ TablesUnchanged
          /\ UNCHANGED << rounds_id_seq, txn >>]_vars

\* Both clients were refused, one with 5 and one with 3 players, with a round
\* stored.
C4_Witness ==
    /\ rounds # {}
    /\ \E c, d \in Clients :
         /\ req[c].op = "create_round" /\ Len(req[c].players) = 5 /\ resp[c].status = 400
         /\ req[d].op = "create_round" /\ Len(req[d].players) = 3 /\ resp[d].status = 400

\* Client c's delete looks for an id that is not in rounds, or whose delete
\* has already succeeded.
C5_MissingAtCheck(c) ==
    /\ pc[c] = "check_round"
    /\ pc'[c] # "check_round"
    /\ \/ req[c].round_id \notin RoundIds(rounds)
       \/ req[c].round_id \in deleted_ok

\* C5: a delete_round whose id is not in rounds when the handler looks for it
\* answers 404 "Round not found" and changes no row; so does every delete of
\* an id whose delete has already succeeded.
C5_DeleteMissingIs404 ==
    [][\A c \in Clients : C5_MissingAtCheck(c) =>
          /\ resp'[c] = [status |-> 404, detail |-> "Round not found"]
          /\ pc'[c] = "idle"
          /\ TablesUnchanged]_vars

\* A delete of an id that was deleted with success before got 404, with other
\* rows stored.
C5_Witness ==
    \E c \in Clients :
        /\ req[c].op = "delete_round" /\ pc[c] = "idle" /\ resp[c].status = 404
        /\ req[c].round_id \in deleted_ok
        /\ rounds # {}

Distinct(seq) == \A i, j \in DOMAIN seq : i # j => seq[i] # seq[j]

FinishedCreateOfFour(c) ==
    req[c].op = "create_round" /\ Len(req[c].players) = 4 /\ pc[c] = "idle"

\* C6 as stated: a create_round with exactly 4 players always succeeds, and no
\* returned round id was returned before.
C6_AlwaysSucceedsFreshId ==
    /\ Distinct(issued)
    /\ \A c \in Clients : FinishedCreateOfFour(c) => resp[c].status = 200

\* C6 as amended: a create_round with exactly 4 players is never refused with
\* 400: it ends with success or, when the data store rejects an insert, with
\* HTTP 500; and no returned round id was returned before, deleted rounds
\* included.
C6_FreshId ==
    /\ Distinct(issued)
    /\ \A c \in Clients : FinishedCreateOfFour(c) =>
         /\ resp[c].status \in {200, 500}
         /\ resp[c].status = 200 => \E k \in DOMAIN issued : issued[k] = resp[c].body.round_id

\* Two ids were returned, the second after the first round had been deleted.
C6_Witness ==
    /\ Len(issued) = 2
    /\ issued[1] \in deleted_ok
    /\ issued[2] \in RoundIds(rounds)

\* C10: of the concurrent delete_round requests for the same round, one
\* returns success and the others 404: no delete returns success for a round
\* whose delete has already returned success.
C10_OneDeleteSucceeds ==
    [][\A c \in Clients :
          (pc[c] = "delete_commit" /\ pc'[c] = "idle" /\ resp'[c].status = 200)
             => req[c].round_id \notin deleted_ok]_vars

\* ---------------------------------------------------------- read endpoints
\* The read endpoints are checked from databases with up to FixtureRounds
\* rounds: round k has id k, any played_at, any winning_team (NULL included: a
\* round without a recorded winner) and four round_players rows.
FixtureRoster(k) == RosterSeq[((k - 1) % Len(RosterSeq)) + 1]

InitRead ==
    /\ \E n \in 0..FixtureRounds :
         \E played_at \in [1..n -> PlayedAts], winning_team \in [1..n -> Teams \cup {NULL}] :
           /\ rounds = { [id |-> k, played_at |-> played_at[k],
                          winning_team |-> winning_team[k]] : k \in 1..n }
           /\ round_players =
                [i \in 1..(RequiredPlayers * n) |->
                   LET k == ((i - 1) \div RequiredPlayers) + 1
                       p == FixtureRoster(k)[((i - 1) % RequiredPlayers) + 1]
                   IN [round_id |-> k, player_id |-> p.player_id, team |-> p.team,
                       points |-> p.points, reservation |-> p.reservation]]
           /\ rounds_id_seq = n
    /\ pc = [c \in Clients |-> "idle"]
    /\ req = [c \in Clients |-> NoReq]
    /\ txn = [c \in Clients |-> EmptyTxn]
    /\ resp = [c \in Clients |-> NoResp]
    /\ issued = << >>
    /\ deleted_ok = {}

NextRead ==
    \E c \in Clients :
        \/ get_player_stats(c)
        \/ get_player_progression(c)

SpecRead == InitRead /\ [][NextRead]_vars

\* ------------------------------------------------ properties of the reads
\* The round_players rows of player p whose round has a winning_team.
DecidedRowsOf(p) ==
    { i \in DOMAIN round_players :
        /\ round_players[i].player_id = p
        /\ \E r \in rounds : r.id = round_players[i].round_id /\ r.winning_team # NULL }

WonRowsOf(p) ==
    { i \in DecidedRowsOf(p) :
        \E r \in rounds : r.id = round_players[i].round_id
                            /\ r.winning_team = round_players[i].team }

Abs(x) == IF x < 0 THEN -x ELSE x

\* C7: get_player_stats(p) answers 404 "Player has no completed rounds" when p
\* has no row in a round with a winning_team; otherwise rounds_played is the
\* number of those rows, rounds_won the number of them on the winning team
\* (0 <= rounds_won <= rounds_played), total_points the sum of their points and
\* win_ratio rounds_won / rounds_played rounded to 2 places (2 of 3: 0.67).
C7_Stats ==
    \A c \in Clients : req[c].op = "get_player_stats" =>
        LET D == DecidedRowsOf(req[c].player_id)
            W == WonRowsOf(req[c].player_id)
        IN IF D = {}
           THEN resp[c] = [status |-> 404, detail |-> "Player has no completed rounds"]
           ELSE /\ resp[c].status = 200
                /\ resp[c].body.player_id = req[c].player_id
                /\ resp[c].body.rounds_played = Cardinality(D)
                /\ resp[c].body.rounds_won = Cardinality(W)
                /\ 0 <= resp[c].body.rounds_won
                /\ resp[c].body.rounds_won <= resp[c].body.rounds_played
                /\ resp[c].body.total_points = SumPoints(round_players, D)
                /\ 2 * Abs(resp[c].body.win_ratio * Cardinality(D) - 100 * Cardinality(W))
                      <= Cardinality(D)
                /\ (Cardinality(D) = 3 /\ Cardinality(W) = 2) => resp[c].body.win_ratio = 67

\* Player 1 has four rounds, one of them without a winner, and won 2 of the 3
\* decided ones, with points 10, 20 and 30.
C7_Witness ==
    \E c \in Clients :
        /\ req[c].op = "get_player_stats"
        /\ resp[c].status = 200
        /\ resp[c].body = [player_id |-> 1, rounds_played |-> 3, rounds_won |-> 2,
                            win_ratio |-> 67, total_points |-> 60, average_points |-> 2000]
        /\ Cardinality(JoinedRows(rounds, round_players, 1)) = 4

\* The orders of the rows I by played_at, then round id.
SortedOrders(I) ==
    { f \in [1..Cardinality(I) -> I] :
        /\ \A k, l \in 1..Cardinality(I) : k # l => f[k] # f[l]
        /\ \A k, l \in 1..Cardinality(I) :
             k < l => OrderKeyLeq(rounds, round_players, f[k], f[l]) }

\* C8: for a player with n >= 1 rounds get_player_progression returns the n
\* rounds ordered by played_at, then round id, each with the sum of the points
\* up to it.
C8_FullProgression ==
    \A c \in Clients : req[c].op = "get_player_progression" =>
        LET I == JoinedRows(rounds, round_players, req[c].player_id) IN
        I # {} =>
           /\ resp[c].status = 200
           /\ \E f \in SortedOrders(I) :
                /\ resp[c].body.round_id = [k \in 1..Cardinality(I) |-> round_players[f[k]].round_id]
                /\ resp[c].body.played_at =
                     [k \in 1..Cardinality(I) |->
                        RoundById(rounds, round_players[f[k]].round_id).played_at]
                /\ resp[c].body.progression =
                     [k \in 1..Cardinality(I) |->
                        SumPoints(round_players, { f[j] : j \in 1..k })]

\* C9: for a player without rounds get_player_progression answers 404 or
\* returns an empty sequence, never an internal error.
C9_NoRoundsDefined ==
    \A c \in Clients : req[c].op = "get_player_progression" =>
        (JoinedRows(rounds, round_players, req[c].player_id) = {} =>
           \/ resp[c].status = 404
           \/ resp[c].status = 200 /\ resp[c].body.progression = << >>)

====
